---- MODULE Spec2Model ----
(***************************************************************************)
(* Model of jni/com_android_server_ServiceManagerWrapper.cpp:              *)
(* ServiceManagerWrapper.nativeWaitForService(String).                     *)
(*                                                                         *)
(* The native method is two statements:                                    *)
(*   l.32  const char* serviceName =                                       *)
(*             env->GetStringUTFChars(serviceNameJni, nullptr);            *)
(*   l.33  return AIBinder_toJavaBinder(env,                               *)
(*             AServiceManager_waitForService(serviceName));               *)
(* Each Java thread that calls it walks through: entry, the string read,   *)
(* the blocking lookup, the conversion, the return.  The platform service  *)
(* directory is the only shared object; services register in it while      *)
(* calls are in flight.                                                    *)
(*                                                                         *)
(* The platform facilities the two statements call are modelled by their   *)
(* NDK/JNI contracts:                                                      *)
(*  - GetStringUTFChars allocates a NUL-terminated modified-UTF-8 copy of  *)
(*    the string, to be given back with ReleaseStringUTFChars, or returns  *)
(*    NULL when the copy cannot be allocated;                              *)
(*  - AServiceManager_waitForService reads the C string, waits until the   *)
(*    instance is registered and returns its AIBinder with one strong      *)
(*    reference taken for the caller (AIBinder_incStrong), or null when    *)
(*    it is given a null pointer or the directory does not accept the      *)
(*    name;                                                                *)
(*  - AIBinder_toJavaBinder maps null to null and an AIBinder to the       *)
(*    android.os.IBinder of the same remote object; it takes no ownership  *)
(*    of its argument.                                                     *)
(***************************************************************************)
EXTENDS Naturals, Sequences, FiniteSets

\* Bound: how many times nativeWaitForService is entered in one behaviour.
MaxCalls == 2

\* The Java threads that call the native method.
Threads == {"t1", "t2"}

\* The remote service objects that can register with the directory.
Services == {"s1", "s2"}

\* The jstring arguments tried, as sequences of UTF-16 code units:
\* "a", "b", "a\u0000" and "é".
Names == { <<97>>, <<98>>, <<97, 0>>, <<233>> }

NoService == "NoService"
\* The null AIBinder*, the Java null reference, the null const char*, and the
\* absent name of a thread that is in no call.
NullPtr == [kind |-> "nullptr", remote |-> NoService]
JNull == [kind |-> "null", remote |-> NoService]
NullChars == << >>
NoName == << >>

VARIABLES
    registry,          \* the platform service directory: name -> service
    pc,                \* where each thread is in the native method
    calls,             \* number of calls entered so far
    arg,               \* serviceNameJni of the thread's call
    regAtCall,         \* what the directory held for arg when the call began
    serviceName,       \* the local `serviceName`: the native buffer, or nullptr
    binder,            \* the AIBinder* AServiceManager_waitForService returned
    jbinder,           \* the jobject AIBinder_toJavaBinder returned
    ret,               \* the value handed back to the Java caller
    lookedUp,          \* the instance name the directory was asked for
    nLookups,          \* AServiceManager_waitForService calls made by the call
    nConversions,      \* AIBinder_toJavaBinder calls made by the call
    utfChars,          \* GetStringUTFChars buffers not yet released
    strong,            \* per service: strong refs taken for the bridge, not dropped
    pendingException   \* threads whose JNIEnv has an exception pending

vars == << registry, pc, calls, arg, regAtCall, serviceName, binder, jbinder,
           ret, lookedUp, nLookups, nConversions, utfChars, strong,
           pendingException >>

----------------------------------------------------------------------------
\* Pure platform functions.

\* Modified UTF-8 of one UTF-16 code unit (JNI GetStringUTFChars): U+0000 is
\* the two bytes C0 80, so the encoded string holds no zero byte.
ModifiedUtf8Unit(c) ==
    IF c >= 1 /\ c <= 127 THEN << c >>
    ELSE IF c <= 2047 THEN << 192 + (c \div 64), 128 + (c % 64) >>
    ELSE << 224 + (c \div 4096), 128 + ((c \div 64) % 64), 128 + (c % 64) >>

RECURSIVE ModifiedUtf8(_)
ModifiedUtf8(s) ==
    IF s = << >> THEN << >>
    ELSE ModifiedUtf8Unit(Head(s)) \o ModifiedUtf8(Tail(s))

\* Standard UTF-8 of one code unit: U+0000 is the single byte 00.
StandardUtf8Unit(c) ==
    IF c <= 127 THEN << c >> ELSE ModifiedUtf8Unit(c)

RECURSIVE StandardUtf8(_)
StandardUtf8(s) ==
    IF s = << >> THEN << >>
    ELSE StandardUtf8Unit(Head(s)) \o StandardUtf8(Tail(s))

\* A mutant of GetStringUTFCharsBuffer: the buffer holds standard UTF-8.
GetStringUTFCharsStandard(s) == StandardUtf8(s) \o << 0 >>

\* env->GetStringUTFChars(s, nullptr): the bytes of the new native buffer,
\* NUL-terminated.
GetStringUTFCharsBuffer(s) == ModifiedUtf8(s) \o << 0 >>

\* The C string a const char* denotes: the bytes before the first zero byte.
RECURSIVE CString(_)
CString(buf) ==
    IF buf = << >> \/ Head(buf) = 0 THEN << >>
    ELSE << Head(buf) >> \o CString(Tail(buf))

\* The platform's reading of the C string as a UTF-16 instance name
\* (1-, 2- and 3-byte sequences).
RECURSIVE Utf8ToUtf16(_)
Utf8ToUtf16(b) ==
    IF b = << >> THEN << >>
    ELSE IF Head(b) < 128 \/ Len(b) < 2
        THEN << Head(b) >> \o Utf8ToUtf16(Tail(b))
    ELSE IF Head(b) < 224 \/ Len(b) < 3
        THEN << (Head(b) % 32) * 64 + (b[2] % 64) >>
             \o Utf8ToUtf16(SubSeq(b, 3, Len(b)))
    ELSE << (Head(b) % 16) * 4096 + (b[2] % 64) * 64 + (b[3] % 64) >>
         \o Utf8ToUtf16(SubSeq(b, 4, Len(b)))

\* Names the service directory accepts: non-empty, printable ASCII letters
\* only.  A service can be registered, and found, only under such a name.
ValidServiceName(n) ==
    /\ n # << >>
    /\ \A i \in 1..Len(n) : n[i] >= 97 /\ n[i] <= 122

ValidNames == { n \in Names : ValidServiceName(n) }

\* The directory entry for an instance name.
Lookup(reg, n) == IF n \in DOMAIN reg THEN reg[n] ELSE NoService

\* The low-level handle (AIBinder*) and the managed reference
\* (android.os.IBinder) of a remote service object.
AIBinderOf(s) == [kind |-> "AIBinder", remote |-> s]
JavaBinderOf(s) == [kind |-> "android.os.IBinder", remote |-> s]

AIBinders == { AIBinderOf(s) : s \in Services }
JavaBinders == { JavaBinderOf(s) : s \in Services }

\* AIBinder_toJavaBinder(env, b).
AIBinder_toJavaBinder(b) ==
    IF b = NullPtr THEN JNull ELSE JavaBinderOf(b.remote)

\* What AServiceManager_waitForService(instance) does in directory state reg:
\* it yields null for a name the directory does not accept, the AIBinder of
\* the registered service, or keeps waiting.
Blocks == [kind |-> "blocks", remote |-> NoService]
WaitForServiceOutcome(reg, n) ==
    IF ~ValidServiceName(n) THEN NullPtr
    ELSE IF Lookup(reg, n) # NoService THEN AIBinderOf(Lookup(reg, n))
    ELSE Blocks

----------------------------------------------------------------------------
\* The native method, statement by statement.

\* A mutant of LookupArgument: the pointer lives in one static slot shared by
\* all threads.
LookupArgumentShared(t) ==
    IF \E u \in Threads : u # t /\ serviceName[u] # NullChars
    THEN serviceName[CHOOSE u \in Threads : u # t /\ serviceName[u] # NullChars]
    ELSE serviceName[t]

\* l.33: the argument of AServiceManager_waitForService is the caller's own
\* local `serviceName`.
LookupArgument(t) == serviceName[t]

\* The instance name the directory receives from thread t; none when the
\* pointer passed is null.
InstanceName(t) ==
    IF LookupArgument(t) = NullChars THEN NoName
    ELSE Utf8ToUtf16(CString(LookupArgument(t)))

\* AServiceManager_waitForService(p) in directory state reg: a null pointer
\* is answered with null at once, any other is looked up by the name it
\* denotes.
AServiceManager_waitForService(reg, p) ==
    IF p = NullChars THEN NullPtr
    ELSE WaitForServiceOutcome(reg, Utf8ToUtf16(CString(p)))

Init ==
    /\ registry = [n \in ValidNames |-> NoService]
    /\ pc = [t \in Threads |-> "idle"]
    /\ calls = 0
    /\ arg = [t \in Threads |-> NoName]
    /\ regAtCall = [t \in Threads |-> NoService]
    /\ serviceName = [t \in Threads |-> NullChars]
    /\ binder = [t \in Threads |-> NullPtr]
    /\ jbinder = [t \in Threads |-> JNull]
    /\ ret = [t \in Threads |-> JNull]
    /\ lookedUp = [t \in Threads |-> NoName]
    /\ nLookups = [t \in Threads |-> 0]
    /\ nConversions = [t \in Threads |-> 0]
    /\ utfChars = 0
    /\ strong = [s \in Services |-> 0]
    /\ pendingException = {}

\* A service registers with the directory under a name it accepts.
Register(n, s) ==
    /\ ValidServiceName(n)
    /\ registry[n] = NoService
    /\ registry' = [registry EXCEPT ![n] = s]
    /\ UNCHANGED << pc, calls, arg, regAtCall, serviceName, binder, jbinder,
                    ret, lookedUp, nLookups, nConversions, utfChars, strong,
                    pendingException >>

\* l.25-27: a Java thread enters nativeWaitForService(name).
Call(t, name) ==
    /\ pc[t] = "idle"
    /\ calls < MaxCalls
    /\ calls' = calls + 1
    /\ pc' = [pc EXCEPT ![t] = "getChars"]
    /\ arg' = [arg EXCEPT ![t] = name]
    /\ regAtCall' = [regAtCall EXCEPT ![t] = Lookup(registry, name)]
    /\ UNCHANGED << registry, serviceName, binder, jbinder, ret, lookedUp,
                    nLookups, nConversions, utfChars, strong, pendingException >>

\* l.32: const char* serviceName = env->GetStringUTFChars(serviceNameJni, nullptr);
\* The call returns a new buffer, or NULL when the buffer cannot be
\* allocated.  The code does not test the result.
GetStringUTFChars(t) ==
    /\ pc[t] = "getChars"
    /\ \/ /\ serviceName' = [serviceName EXCEPT ![t] = GetStringUTFCharsBuffer(arg[t])]
          /\ utfChars' = utfChars + 1
       \/ /\ serviceName' = [serviceName EXCEPT ![t] = NullChars]
          /\ utfChars' = utfChars
    /\ pc' = [pc EXCEPT ![t] = "wait"]
    /\ UNCHANGED << registry, calls, arg, regAtCall, binder, jbinder, ret,
                    lookedUp, nLookups, nConversions, strong, pendingException >>

\* A mutant of WaitForService: the directory is consulted once, as it was when
\* the call began; a registration made after that never ends the wait.
WaitForServiceChecksOnce(t) ==
    /\ pc[t] = "wait"
    /\ LET n == InstanceName(t)
           r == AServiceManager_waitForService(registry, LookupArgument(t))
       IN /\ r # Blocks
          /\ r # NullPtr => regAtCall[t] # NoService
          /\ binder' = [binder EXCEPT ![t] = r]
          /\ lookedUp' = [lookedUp EXCEPT ![t] = n]
          /\ strong' = IF r = NullPtr THEN strong
                       ELSE [strong EXCEPT ![r.remote] = @ + 1]
    /\ nLookups' = [nLookups EXCEPT ![t] = @ + 1]
    /\ pc' = [pc EXCEPT ![t] = "convert"]
    /\ UNCHANGED << registry, calls, arg, regAtCall, serviceName, jbinder, ret,
                    nConversions, utfChars, pendingException >>

\* A mutant of WaitForService: the lookup does not wait, an unregistered name
\* yields null at once.
WaitForServiceNoWait(t) ==
    /\ pc[t] = "wait"
    /\ LET n == InstanceName(t)
           o == AServiceManager_waitForService(registry, LookupArgument(t))
           r == IF o = Blocks THEN NullPtr ELSE o
       IN /\ binder' = [binder EXCEPT ![t] = r]
          /\ lookedUp' = [lookedUp EXCEPT ![t] = n]
          /\ strong' = IF r = NullPtr THEN strong
                       ELSE [strong EXCEPT ![r.remote] = @ + 1]
    /\ nLookups' = [nLookups EXCEPT ![t] = @ + 1]
    /\ pc' = [pc EXCEPT ![t] = "convert"]
    /\ UNCHANGED << registry, calls, arg, regAtCall, serviceName, jbinder, ret,
                    nConversions, utfChars, pendingException >>

\* l.33, inner call: AServiceManager_waitForService(serviceName) returns.  It
\* is enabled only once the facility has an outcome; until then the thread
\* stays here.  A non-null result carries one strong reference owned by the
\* caller.
WaitForService(t) ==
    /\ pc[t] = "wait"
    /\ LET n == InstanceName(t)
           r == AServiceManager_waitForService(registry, LookupArgument(t))
       IN /\ r # Blocks
          /\ binder' = [binder EXCEPT ![t] = r]
          /\ lookedUp' = [lookedUp EXCEPT ![t] = n]
          /\ strong' = IF r = NullPtr THEN strong
                       ELSE [strong EXCEPT ![r.remote] = @ + 1]
    /\ nLookups' = [nLookups EXCEPT ![t] = @ + 1]
    /\ pc' = [pc EXCEPT ![t] = "convert"]
    /\ UNCHANGED << registry, calls, arg, regAtCall, serviceName, jbinder, ret,
                    nConversions, utfChars, pendingException >>

\* A mutant of ToJavaBinder: a null lookup result is turned into a thrown
\* exception.
ToJavaBinderThrowing(t) ==
    /\ pc[t] = "convert"
    /\ jbinder' = [jbinder EXCEPT ![t] = AIBinder_toJavaBinder(binder[t])]
    /\ pendingException' = IF binder[t] = NullPtr
                           THEN pendingException \cup {t}
                           ELSE pendingException
    /\ nConversions' = [nConversions EXCEPT ![t] = @ + 1]
    /\ pc' = [pc EXCEPT ![t] = "return"]
    /\ UNCHANGED << registry, calls, arg, regAtCall, serviceName, binder, ret,
                    lookedUp, nLookups, utfChars, strong >>

\* A mutant of ToJavaBinder: a null lookup result sends the thread back to
\* the lookup.
ToJavaBinderRetrying(t) ==
    /\ pc[t] = "convert"
    /\ jbinder' = [jbinder EXCEPT ![t] = AIBinder_toJavaBinder(binder[t])]
    /\ nConversions' = [nConversions EXCEPT ![t] = @ + 1]
    /\ pc' = [pc EXCEPT ![t] = IF binder[t] = NullPtr /\ nLookups[t] < 2
                               THEN "wait" ELSE "return"]
    /\ UNCHANGED << registry, calls, arg, regAtCall, serviceName, binder, ret,
                    lookedUp, nLookups, utfChars, strong, pendingException >>

\* l.33, outer call: AIBinder_toJavaBinder(env, <the lookup's result>).
ToJavaBinder(t) ==
    /\ pc[t] = "convert"
    /\ jbinder' = [jbinder EXCEPT ![t] = AIBinder_toJavaBinder(binder[t])]
    /\ nConversions' = [nConversions EXCEPT ![t] = @ + 1]
    /\ pc' = [pc EXCEPT ![t] = "return"]
    /\ UNCHANGED << registry, calls, arg, regAtCall, serviceName, binder, ret,
                    lookedUp, nLookups, utfChars, strong, pendingException >>

\* A mutant of Return: the converted reference is dropped and null returned.
ReturnDiscards(t) ==
    /\ pc[t] = "return"
    /\ ret' = [ret EXCEPT ![t] = JNull]
    /\ pc' = [pc EXCEPT ![t] = "returned"]
    /\ UNCHANGED << registry, calls, arg, regAtCall, serviceName, binder, jbinder, lookedUp,
                    nLookups, nConversions, utfChars, strong, pendingException >>

\* l.33-35: return.  No ReleaseStringUTFChars and no AIBinder_decStrong
\* precede it.  The model keeps the value the local `serviceName` had until
\* the caller resumes.
Return(t) ==
    /\ pc[t] = "return"
    /\ ret' = [ret EXCEPT ![t] = jbinder[t]]
    /\ pc' = [pc EXCEPT ![t] = "returned"]
    /\ UNCHANGED << registry, calls, arg, regAtCall, serviceName, binder, jbinder, lookedUp,
                    nLookups, nConversions, utfChars, strong, pendingException >>

\* The Java caller takes the result and is ready to call again.
JavaResume(t) ==
    /\ pc[t] = "returned"
    /\ pc' = [pc EXCEPT ![t] = "idle"]
    /\ arg' = [arg EXCEPT ![t] = NoName]
    /\ regAtCall' = [regAtCall EXCEPT ![t] = NoService]
    /\ serviceName' = [serviceName EXCEPT ![t] = NullChars]
    /\ binder' = [binder EXCEPT ![t] = NullPtr]
    /\ jbinder' = [jbinder EXCEPT ![t] = JNull]
    /\ ret' = [ret EXCEPT ![t] = JNull]
    /\ lookedUp' = [lookedUp EXCEPT ![t] = NoName]
    /\ nLookups' = [nLookups EXCEPT ![t] = 0]
    /\ nConversions' = [nConversions EXCEPT ![t] = 0]
    /\ UNCHANGED << registry, calls, utfChars, strong, pendingException >>

\* The steps of the native method on thread t.
Native(t) ==
    \/ GetStringUTFChars(t)
    \/ WaitForService(t)
    \/ ToJavaBinder(t)
    \/ Return(t)

Next ==
    \/ \E n \in ValidNames, s \in Services : Register(n, s)
    \/ \E t \in Threads, name \in Names : Call(t, name)
    \/ \E t \in Threads : GetStringUTFChars(t)
    \/ \E t \in Threads : WaitForService(t)
    \/ \E t \in Threads : ToJavaBinder(t)
    \/ \E t \in Threads : Return(t)
    \/ \E t \in Threads : JavaResume(t)

Spec == Init /\ [][Next]_vars

\* Every thread inside the native method keeps running: the scheduler does
\* not starve a runnable thread.
FairSpec == Spec /\ \A t \in Threads : WF_vars(Native(t))

----------------------------------------------------------------------------
\* Properties.

\* Thread t's call has come back from the lookup.
PastLookup(t) == pc[t] \in {"convert", "return", "returned"}

\* Thread t's call has executed l.32.
PastRead(t) == pc[t] \in {"wait", "convert", "return", "returned"}

\* GetStringUTFChars gave thread t's call a buffer / gave it NULL.
CharsObtained(t) == PastRead(t) /\ serviceName[t] # NullChars
CharsFailed(t) == PastRead(t) /\ serviceName[t] = NullChars

\* No thread is inside the native method.
Quiescent == \A t \in Threads : pc[t] \in {"idle", "returned"}

\* C1 as stated: a call whose name was registered when the call began is
\* never made to wait at the lookup, and it returns the non-null managed
\* handle of exactly the service registered under that name.
C1_RegisteredNameResolves ==
    \A t \in Threads :
        regAtCall[t] # NoService =>
            /\ pc[t] = "wait" => ENABLED WaitForService(t)
            /\ pc[t] = "returned" =>
                /\ ret[t] # JNull
                /\ ret[t] = JavaBinderOf(regAtCall[t])
                /\ ret[t] = JavaBinderOf(Lookup(registry, arg[t]))

\* C1 amended: a call whose name was registered when the call began is never
\* made to wait at the lookup; when GetStringUTFChars gave it a buffer it
\* returns the non-null managed handle of exactly the service registered
\* under that name, and when GetStringUTFChars gave it NULL it returns null.
C1_RegisteredNameResolvesOrNull ==
    \A t \in Threads :
        regAtCall[t] # NoService =>
            /\ pc[t] = "wait" => ENABLED WaitForService(t)
            /\ ( pc[t] = "returned" /\ CharsObtained(t) ) =>
                /\ ret[t] # JNull
                /\ ret[t] = JavaBinderOf(regAtCall[t])
                /\ ret[t] = JavaBinderOf(Lookup(registry, arg[t]))
            /\ ( pc[t] = "returned" /\ CharsFailed(t) ) => ret[t] = JNull

\* C1 witness: two calls for already registered names have returned, one
\* with its handle while another name is registered to a different service,
\* the other after GetStringUTFChars gave it NULL.
C1_Witness ==
    \E t, u \in Threads, n \in ValidNames :
        /\ pc[t] = "returned"
        /\ regAtCall[t] # NoService
        /\ CharsObtained(t)
        /\ n # arg[t]
        /\ registry[n] # NoService
        /\ registry[n] # regAtCall[t]
        /\ pc[u] = "returned"
        /\ regAtCall[u] # NoService
        /\ CharsFailed(u)

\* C2 as stated: while the requested name is unregistered a thread at the
\* lookup cannot take any step of the native method, and no call ever holds
\* or returns a handle for a name that is not registered.
C2_BlockedWhileUnregistered ==
    \A t \in Threads :
        /\ ( /\ pc[t] = "wait"
             /\ Lookup(registry, arg[t]) = NoService ) => ~ENABLED Native(t)
        /\ ( /\ pc[t] # "idle"
             /\ \/ binder[t] # NullPtr
                \/ jbinder[t] # JNull
                \/ ret[t] # JNull ) => Lookup(registry, arg[t]) # NoService

\* C2 amended: while the requested name is unregistered, a call that
\* GetStringUTFChars gave a buffer, for a name the directory accepts, cannot
\* take any step of the native method; a call that GetStringUTFChars gave
\* NULL, or whose name the directory does not accept, is not made to wait
\* and comes back from the lookup with null; and no call ever holds or
\* returns a handle for a name that is not registered.
C2_BlockedWhileUnregisteredWithChars ==
    \A t \in Threads :
        Lookup(registry, arg[t]) = NoService =>
            /\ ( /\ pc[t] = "wait"
                 /\ CharsObtained(t)
                 /\ ValidServiceName(arg[t]) ) => ~ENABLED Native(t)
            /\ ( /\ pc[t] = "wait"
                 /\ CharsFailed(t) \/ ~ValidServiceName(arg[t]) ) =>
                    ENABLED WaitForService(t)
            /\ ( pc[t] # "idle" ) =>
                /\ binder[t] = NullPtr
                /\ jbinder[t] = JNull
                /\ ret[t] = JNull

\* C2 witness: a call with a buffer waits for an unregistered name while some
\* other name is registered, and a call without a buffer has returned for an
\* unregistered name.
C2_Witness ==
    \E t, u \in Threads, n \in ValidNames :
        /\ pc[t] = "wait"
        /\ CharsObtained(t)
        /\ ValidServiceName(arg[t])
        /\ Lookup(registry, arg[t]) = NoService
        /\ registry[n] # NoService
        /\ pc[u] = "returned"
        /\ CharsFailed(u)
        /\ ValidServiceName(arg[u])
        /\ Lookup(registry, arg[u]) = NoService

\* The handle a returned call for a valid name carries is the one registered
\* under that name.
ReturnedHandleMatches ==
    \A t \in Threads :
        ( pc[t] = "returned" /\ ValidServiceName(arg[t]) ) =>
            ret[t] = JavaBinderOf(Lookup(registry, arg[t]))

\* A returned call for a valid name carries the handle registered under that
\* name when GetStringUTFChars gave it a buffer, and null when it gave NULL.
ReturnedHandleMatchesOrNull ==
    \A t \in Threads :
        ( pc[t] = "returned" /\ ValidServiceName(arg[t]) ) =>
            ret[t] = IF CharsObtained(t)
                     THEN JavaBinderOf(Lookup(registry, arg[t]))
                     ELSE JNull

\* A call that began before its name was registered is pending and the name
\* is now registered.
PendingNowRegistered(t) ==
    /\ pc[t] \in {"getChars", "wait"}
    /\ regAtCall[t] = NoService
    /\ Lookup(registry, arg[t]) # NoService

\* C3 as stated: a call that began before its name was registered, once the
\* name is registered, eventually returns, and what it returns is the handle
\* registered under that name.
C3_EventuallyReturns ==
    /\ \A t \in Threads : PendingNowRegistered(t) ~> ( pc[t] = "returned" )
    /\ []ReturnedHandleMatches

\* C3 amended: a call that began before its name was registered, once the
\* name is registered, eventually returns; what it returns is the handle
\* registered under that name when GetStringUTFChars gave it a buffer, and
\* null when GetStringUTFChars gave it NULL.
C3_EventuallyReturnsHandleOrNull ==
    /\ \A t \in Threads : PendingNowRegistered(t) ~> ( pc[t] = "returned" )
    /\ []ReturnedHandleMatchesOrNull

\* C3 witness: a call that began with its name unregistered and waited with
\* a buffer has returned a handle.
C3_Witness ==
    \E t \in Threads :
        /\ pc[t] = "returned"
        /\ regAtCall[t] = NoService
        /\ CharsObtained(t)
        /\ ret[t] \in JavaBinders

\* C4: the caller gets a managed handle or the null reference and never a
\* pending exception; when the lookup yielded no handle it gets null.
C4_AbsenceIsNull ==
    \A t \in Threads :
        /\ t \notin pendingException
        /\ pc[t] = "returned" =>
            /\ ret[t] \in JavaBinders \cup {JNull}
            /\ binder[t] = NullPtr => ret[t] = JNull

\* C4 witness: two calls whose lookups yielded no handle have returned, one
\* for a name the directory does not accept, one whose lookup was given a
\* null pointer.
C4_Witness ==
    \E t, u \in Threads :
        /\ pc[t] = "returned"
        /\ nLookups[t] > 0
        /\ CharsObtained(t)
        /\ binder[t] = NullPtr
        /\ pc[u] = "returned"
        /\ nLookups[u] > 0
        /\ CharsFailed(u)
        /\ binder[u] = NullPtr

\* C5 as stated: of two concurrent calls with different registered names,
\* each returns the handle of its own name and not that of the other call's
\* name.
C5_NoCrossContamination ==
    \A t, u \in Threads :
        ( /\ t # u
          /\ pc[t] = "returned"
          /\ pc[u] # "idle"
          /\ arg[t] # arg[u]
          /\ regAtCall[t] # NoService
          /\ regAtCall[u] # NoService ) =>
            /\ ret[t] = JavaBinderOf(regAtCall[t])
            /\ regAtCall[t] # regAtCall[u] => ret[t] # JavaBinderOf(regAtCall[u])

\* C5 amended: of two concurrent calls with different registered names, each
\* returns the handle of its own name when GetStringUTFChars gave it a
\* buffer and null when it gave NULL, and never the handle of the other
\* call's name.
C5_NoCrossContaminationOrNull ==
    \A t, u \in Threads :
        ( /\ t # u
          /\ pc[t] = "returned"
          /\ pc[u] # "idle"
          /\ arg[t] # arg[u]
          /\ regAtCall[t] # NoService
          /\ regAtCall[u] # NoService ) =>
            /\ ret[t] = IF CharsObtained(t) THEN JavaBinderOf(regAtCall[t])
                        ELSE JNull
            /\ regAtCall[t] # regAtCall[u] => ret[t] # JavaBinderOf(regAtCall[u])

\* C5 witness: both threads have returned handles from calls with different
\* names registered to different services.
C5_Witness ==
    \E t, u \in Threads :
        /\ t # u
        /\ pc[t] = "returned"
        /\ pc[u] = "returned"
        /\ arg[t] # arg[u]
        /\ regAtCall[t] # NoService
        /\ regAtCall[u] # NoService
        /\ regAtCall[t] # regAtCall[u]
        /\ ret[t] \in JavaBinders
        /\ ret[u] \in JavaBinders

\* C6 as stated: for a name that is not registered the call does what the
\* platform facility does for that name: it waits where the facility waits,
\* and where the facility yields absence it goes on at once and returns null.
C6_UnregisteredMatchesFacility ==
    \A t \in Threads :
        ( pc[t] # "idle" /\ Lookup(registry, arg[t]) = NoService ) =>
            LET o == WaitForServiceOutcome(registry, arg[t]) IN
            /\ o = Blocks =>
                /\ ~PastLookup(t)
                /\ pc[t] = "wait" => ~ENABLED WaitForService(t)
            /\ o = NullPtr =>
                /\ pc[t] = "wait" => ENABLED WaitForService(t)
                /\ PastLookup(t) => binder[t] = NullPtr
                /\ pc[t] = "returned" => ret[t] = JNull

\* C6 amended: for a name that is not registered the call does what the
\* platform facility does for the argument the bridge gives it, which is the
\* name when GetStringUTFChars gave a buffer and a null pointer, answered
\* with absence, when it gave NULL: the call waits where the facility waits,
\* and where the facility yields absence it goes on at once and returns null.
C6_UnregisteredMatchesFacilityForArgument ==
    \A t \in Threads :
        ( PastRead(t) /\ Lookup(registry, arg[t]) = NoService ) =>
            LET o == IF CharsObtained(t)
                     THEN WaitForServiceOutcome(registry, arg[t])
                     ELSE NullPtr
            IN
            /\ o = Blocks =>
                /\ ~PastLookup(t)
                /\ pc[t] = "wait" => ~ENABLED WaitForService(t)
            /\ o = NullPtr =>
                /\ pc[t] = "wait" => ENABLED WaitForService(t)
                /\ PastLookup(t) => binder[t] = NullPtr
                /\ pc[t] = "returned" => ret[t] = JNull

\* C6 witness: one call has returned absence for a name the directory does
\* not accept while another, given a buffer, waits for a valid unregistered
\* name.
C6_Witness ==
    \E t, u \in Threads :
        /\ pc[t] = "returned"
        /\ CharsObtained(t)
        /\ ~ValidServiceName(arg[t])
        /\ ret[t] = JNull
        /\ pc[u] = "wait"
        /\ CharsObtained(u)
        /\ ValidServiceName(arg[u])
        /\ Lookup(registry, arg[u]) = NoService

\* C8: when no call is in progress, no GetStringUTFChars buffer is
\* outstanding.
C8_NameBuffersReleased == Quiescent => utfChars = 0

\* C9: when no call is in progress, the bridge holds no strong reference on
\* any low-level handle.
C9_NoRetainedStrongRef == Quiescent => \A s \in Services : strong[s] = 0

\* At most one lookup and one conversion per call, the conversion after the
\* lookup and applied to its result.
LookupThenConversion(t) ==
    /\ nLookups[t] <= 1
    /\ nConversions[t] <= nLookups[t]
    /\ PastLookup(t) => nLookups[t] = 1
    /\ pc[t] \in {"return", "returned"} =>
        /\ nConversions[t] = 1
        /\ jbinder[t] = AIBinder_toJavaBinder(binder[t])
    /\ pc[t] \in {"getChars", "wait"} => nLookups[t] = 0

\* No step of a call changes the service directory.
DirectoryUntouched ==
    [][ \A t \in Threads :
          (Native(t) \/ JavaResume(t) \/ \E name \in Names : Call(t, name))
              => registry' = registry ]_vars

\* The lookup of every call is made with the caller's string.
C10_Counts ==
    \A t \in Threads :
        /\ LookupThenConversion(t)
        /\ PastLookup(t) => lookedUp[t] = arg[t]

\* The lookup of a call is made with the caller's string when
\* GetStringUTFChars gave a buffer, and with a null pointer, naming nothing,
\* when it gave NULL.
C10_CountsOrNullName ==
    \A t \in Threads :
        /\ LookupThenConversion(t)
        /\ PastLookup(t) =>
            lookedUp[t] = IF CharsObtained(t) THEN arg[t] ELSE NoName

\* C10 as stated: each call makes exactly one lookup, with the caller's name,
\* then exactly one conversion of its result, and no step of a call changes
\* the service directory.
C10_SinglePassThrough == []C10_Counts /\ DirectoryUntouched

\* C10 amended: each call makes exactly one lookup, with the caller's name
\* when GetStringUTFChars gave a buffer and with a null pointer when it gave
\* NULL, then exactly one conversion of its result, never retried, and no
\* step of a call changes the service directory.
C10_SinglePassThroughOrNullName == []C10_CountsOrNullName /\ DirectoryUntouched

\* C10 witness: calls have returned both with a handle and with absence from
\* a lookup that was given a null pointer.
C10_Witness ==
    \E t, u \in Threads :
        /\ pc[t] = "returned" /\ binder[t] \in AIBinders
        /\ pc[u] = "returned" /\ binder[u] = NullPtr /\ nLookups[u] = 1
        /\ CharsFailed(u)

====
